---- MODULE Spec2Model ----
(***************************************************************************)
(* Time management of the engine: TimeManagement::init and the allocation  *)
(* curve remaining<T>() of src/src/timeman.cpp.                            *)
(*                                                                         *)
(* The C++ quantities are modelled with their own arithmetic:              *)
(*   int     32-bit two's complement (AddInt, SubInt, MulInt, CDiv),       *)
(*   int64_t a pair of 32-bit halves (availableNodes),                     *)
(*   double  a binary floating-point number sign * m * 2^e with specials   *)
(*           inf and nan.  The significand has MantBits bits instead of    *)
(*           the 53 of an IEEE double and results are rounded toward zero; *)
(*           every int below 2^MantBits converts exactly.                  *)
(***************************************************************************)
EXTENDS Integers, Sequences, FiniteSets, TLC

(***************************************************************************)
(* int: 32-bit two's complement                                            *)
(***************************************************************************)
IntMax == 2147483647
IntMin == -IntMax - 1

\* C++ integer division truncates toward zero.
CDiv(a, b) ==
  IF (a >= 0) = (b > 0) THEN (IF a >= 0 THEN a \div b ELSE (-a) \div (-b))
  ELSE IF a >= 0 THEN -(a \div (-b)) ELSE -((-a) \div b)

\* a + b would leave the range of int.
AddOverflows(a, b) ==
  \/ a > 0 /\ b > 0 /\ a > IntMax - b
  \/ a < 0 /\ b < 0 /\ a < IntMin - b

\* a + b reduced modulo 2^32 into the range of int.
AddInt(a, b) ==
  IF a > 0 /\ b > 0 /\ a > IntMax - b THEN (a - IntMax - 1) + (b - IntMax - 1)
  ELSE IF a < 0 /\ b < 0 /\ a < IntMin - b THEN (a + IntMax + 1) + (b + IntMax + 1)
  ELSE a + b

\* -a modulo 2^32.
NegInt(a) == IF a = IntMin THEN IntMin ELSE -a

SubInt(a, b) == AddInt(a, NegInt(b))

Abs(a) == IF a < 0 THEN -a ELSE a

\* a * b would leave the range of int (a, b inside it).
MulOverflows(a, b) ==
  /\ a # 0
  /\ b # 0
  /\ ~(a = -1 /\ b # IntMin)
  /\ ~(b = -1 /\ a # IntMin)
  /\ \/ a = IntMin
     \/ b = IntMin
     \/ Abs(a) > IntMax \div Abs(b)

\* a * b for a >= 0, reduced modulo 2^32 (double and add).
RECURSIVE MulWrapNat(_, _)
MulWrapNat(a, b) ==
  IF a = 0 THEN 0
  ELSE LET h == MulWrapNat(a \div 2, b)
           d == AddInt(h, h)
       IN  IF a % 2 = 1 THEN AddInt(d, b) ELSE d

\* a * b modulo 2^32: what a 32-bit multiply instruction leaves.
MulInt(a, b) ==
  IF ~MulOverflows(a, b) THEN a * b
  ELSE IF a >= 0 THEN MulWrapNat(a, b)
  ELSE IF a = IntMin THEN (IF b % 2 = 0 THEN 0 ELSE IntMin)
  ELSE NegInt(MulWrapNat(-a, b))

(***************************************************************************)
(* int64_t as hi * 2^32 + lo, lo in the range of int                       *)
(***************************************************************************)
Wide(hi, lo) == [hi |-> hi, lo |-> lo]

\* Sign extension of an int.
WideOfInt(i) == Wide(0, i)

\* x + y: a low-half sum that leaves the range of int carries into hi.
WideAdd(x, y) ==
  LET carry == IF x.lo > 0 /\ y.lo > 0 /\ x.lo > IntMax - y.lo THEN 1
               ELSE IF x.lo < 0 /\ y.lo < 0 /\ x.lo < IntMin - y.lo THEN -1
               ELSE 0
  IN  Wide(x.hi + y.hi + carry, AddInt(x.lo, y.lo))

\* The mathematical product a * b of a >= 0 and an int b >= 0.
RECURSIVE MulWideNat(_, _)
MulWideNat(a, b) ==
  IF a = 0 THEN Wide(0, 0)
  ELSE LET h == MulWideNat(a \div 2, b)
           d == WideAdd(h, h)
       IN  IF a % 2 = 1 THEN WideAdd(d, WideOfInt(b)) ELSE d

\* (int)x: the low half.
WideToInt(x) == x.lo

WideIsZero(x) == x.hi = 0 /\ x.lo = 0

(***************************************************************************)
(* double: sign * m * 2^e, with m = 0 or 2^(MantBits-1) <= m < 2^MantBits  *)
(***************************************************************************)
MantBits == 30
HalfBits == MantBits \div 2
MantTop  == 2 ^ MantBits            \* significands are below it
MantLow  == 2 ^ (MantBits - 1)      \* normal significands are at least it
HalfTop  == 2 ^ HalfBits

Fin(s, m, e) == [k |-> "fin", s |-> s, m |-> m, e |-> e]
Inf(s)       == [k |-> "inf", s |-> s, m |-> 0, e |-> 0]
NaN          == [k |-> "nan", s |-> 1, m |-> 0, e |-> 0]
Zero(s)      == Fin(s, 0, 0)

IsZero(x) == x.k = "fin" /\ x.m = 0
IsNaN(x)  == x.k = "nan"
IsInf(x)  == x.k = "inf"

\* Shift an exactly known significand 0 <= m < MantTop into the normal range.
RECURSIVE Normalize(_, _, _)
Normalize(s, m, e) ==
  IF m = 0 THEN Zero(s)
  ELSE IF m >= MantLow THEN Fin(s, m, e)
  ELSE IF m < HalfTop THEN Normalize(s, m * HalfTop, e - HalfBits)
  ELSE Normalize(s, m * 2, e - 1)

\* Round to nearest, ties to even: q is the significand cut off, g the first
\* bit dropped, st whether any later bit dropped is set.
Round(s, q, g, st, e) ==
  LET m == IF g = 1 /\ (st \/ q % 2 = 1) THEN q + 1 ELSE q
  IN  IF m = MantTop THEN Fin(s, MantLow, e + 1) ELSE Fin(s, m, e)

\* double(i) for an int i.
FromInt(i) ==
  IF i = IntMin THEN Fin(-1, MantLow, 32 - MantBits)
  ELSE IF Abs(i) >= MantTop
    THEN Round(IF i < 0 THEN -1 ELSE 1, Abs(i) \div 2, Abs(i) % 2, FALSE, 1)
  ELSE Normalize(IF i < 0 THEN -1 ELSE 1, Abs(i), 0)

\* The product a * b of two normal significands, computed by halves, as
\* <<floor(a * b / 2^(MantBits-1)), a * b % 2^(MantBits-1)>>.
MulParts(a, b) ==
  LET a1 == a \div HalfTop
      a0 == a % HalfTop
      b1 == b \div HalfTop
      b0 == b % HalfTop
      mid == a1 * b0 + a0 * b1 + ((a0 * b0) \div HalfTop)
  IN  << 2 * (a1 * b1) + (mid \div (HalfTop \div 2)),
         (mid % (HalfTop \div 2)) * HalfTop + ((a0 * b0) % HalfTop) >>

\* x * y
FMul(x, y) ==
  IF IsNaN(x) \/ IsNaN(y) THEN NaN
  ELSE IF IsInf(x) \/ IsInf(y)
    THEN (IF IsZero(x) \/ IsZero(y) THEN NaN ELSE Inf(x.s * y.s))
  ELSE IF x.m = 0 \/ y.m = 0 THEN Zero(x.s * y.s)
  ELSE LET p == MulParts(x.m, y.m)
           e == x.e + y.e + MantBits - 1
       IN  IF p[1] >= MantTop
             THEN Round(x.s * y.s, p[1] \div 2, p[1] % 2, p[2] # 0, e + 1)
           ELSE Round(x.s * y.s, p[1], p[2] \div (MantLow \div 2),
                      p[2] % (MantLow \div 2) # 0, e)

\* The next n bits of the quotient r / d (r < d) appended to q, and the
\* remainder left: <<quotient, remainder>>.
RECURSIVE DivBits(_, _, _, _)
DivBits(q, r, d, n) ==
  IF n = 0 THEN <<q, r>>
  ELSE IF 2 * r >= d THEN DivBits(2 * q + 1, 2 * r - d, d, n - 1)
  ELSE DivBits(2 * q, 2 * r, d, n - 1)

\* The quotient of two normal significands, rounded.
DivRound(s, xm, ym, e) ==
  LET qr == IF xm >= ym THEN DivBits(1, xm - ym, ym, MantBits - 1)
            ELSE DivBits(0, xm, ym, MantBits)
      g  == IF 2 * qr[2] >= ym THEN 1 ELSE 0
  IN  Round(s, qr[1], g, 2 * qr[2] - g * ym # 0,
            IF xm >= ym THEN e - (MantBits - 1) ELSE e - MantBits)

\* x / y; a zero divisor gives inf or nan as IEEE 754 prescribes.
FDiv(x, y) ==
  IF IsNaN(x) \/ IsNaN(y) THEN NaN
  ELSE IF IsInf(x) THEN (IF IsInf(y) THEN NaN ELSE Inf(x.s * y.s))
  ELSE IF IsInf(y) THEN Zero(x.s * y.s)
  ELSE IF y.m = 0 THEN (IF x.m = 0 THEN NaN ELSE Inf(x.s * y.s))
  ELSE IF x.m = 0 THEN Zero(x.s * y.s)
  ELSE DivRound(x.s * y.s, x.m, y.m, x.e - y.e)

FNeg(x) == IF IsNaN(x) THEN NaN ELSE [x EXCEPT !.s = -x.s]

\* |x| < |y| for finite x, y.
MagLess(x, y) ==
  IF y.m = 0 THEN FALSE
  ELSE IF x.m = 0 THEN TRUE
  ELSE x.e < y.e \/ (x.e = y.e /\ x.m < y.m)

\* m / 2^k as its integer part, its first two fraction bits and whether any
\* later fraction bit is set: <<int, bit1, bit2, sticky>>.
Aligned(m, k) ==
  IF k = 0 THEN <<m, 0, 0, FALSE>>
  ELSE IF k = 1 THEN <<m \div 2, m % 2, 0, FALSE>>
  ELSE IF k > MantBits + 1 THEN <<0, 0, 0, TRUE>>
  ELSE IF k = MantBits + 1 THEN <<0, 0, m \div MantLow, m % MantLow # 0>>
  ELSE LET t == m % (2 ^ k)
       IN  << m \div (2 ^ k), t \div (2 ^ (k - 1)), (t \div (2 ^ (k - 2))) % 2,
              t % (2 ^ (k - 2)) # 0 >>

\* big + small of the same sign, |big| >= |small|.
AddMag(big, small) ==
  LET a == Aligned(small.m, big.e - small.e)
      sum == big.m + a[1]
  IN  IF sum >= MantTop
        THEN Round(big.s, sum \div 2, sum % 2, a[2] = 1 \/ a[3] = 1 \/ a[4],
                   big.e + 1)
      ELSE Round(big.s, sum, a[2], a[3] = 1 \/ a[4], big.e)

\* big + small of opposite signs, |big| >= |small|.
SubMag(big, small) ==
  LET a == Aligned(small.m, big.e - small.e)
      d == big.m - a[1]
  IN  IF a[2] = 0 /\ a[3] = 0 /\ ~a[4]
        THEN (IF d = 0 THEN Zero(1) ELSE Normalize(big.s, d, big.e))
      ELSE LET \* d - 0.f is (d - 1) + (1 - 0.f); c counts quarters of 1 - 0.f
               c == IF a[4] THEN 3 - (2 * a[2] + a[3]) ELSE 4 - (2 * a[2] + a[3])
               q == d - 1
           IN  IF q >= MantLow THEN Round(big.s, q, c \div 2, c % 2 = 1 \/ a[4], big.e)
               ELSE IF q >= MantLow \div 2
                 THEN Round(big.s, 2 * q + (c \div 2), c % 2, a[4], big.e - 1)
               ELSE Normalize(big.s, 2 * q + (c \div 2), big.e - 1)

\* x + y
FAdd(x, y) ==
  IF IsNaN(x) \/ IsNaN(y) THEN NaN
  ELSE IF IsInf(x) THEN (IF IsInf(y) /\ x.s # y.s THEN NaN ELSE x)
  ELSE IF IsInf(y) THEN y
  ELSE IF x.m = 0 THEN (IF y.m = 0 /\ x.s # y.s THEN Zero(1) ELSE y)
  ELSE IF y.m = 0 THEN x
  ELSE LET big   == IF MagLess(x, y) THEN y ELSE x
           small == IF MagLess(x, y) THEN x ELSE y
       IN  IF big.s = small.s THEN AddMag(big, small) ELSE SubMag(big, small)

FSub(x, y) == FAdd(x, FNeg(y))

\* x < y; false when either is nan.
FLess(x, y) ==
  IF IsNaN(x) \/ IsNaN(y) THEN FALSE
  ELSE IF IsInf(x) THEN x.s = -1 /\ ~(IsInf(y) /\ y.s = -1)
  ELSE IF IsInf(y) THEN y.s = 1
  ELSE IF x.m = 0 /\ y.m = 0 THEN FALSE
  ELSE IF x.m = 0 THEN y.s = 1
  ELSE IF y.m = 0 THEN x.s = -1
  ELSE IF x.s # y.s THEN x.s = -1
  ELSE IF x.s = 1 THEN MagLess(x, y)
  ELSE MagLess(y, x)

\* std::min(a, b) is (b < a) ? b : a.
FMin(a, b) == IF FLess(b, a) THEN b ELSE a

\* int(x) has a defined value: x is finite and its integer part is an int.
ToIntDefined(x) ==
  /\ x.k = "fin"
  /\ \/ x.m = 0
     \/ x.e <= 31 - MantBits
     \/ x.s = -1 /\ x.m = MantLow /\ x.e = 32 - MantBits

\* int(x): the fraction is discarded.
ToInt(x) ==
  IF x.m = 0 THEN 0
  ELSE IF x.e > 31 - MantBits THEN IntMin
  ELSE IF x.e >= 0 THEN x.s * (x.m * (2 ^ x.e))
  ELSE IF -x.e >= MantBits THEN 0
  ELSE x.s * (x.m \div (2 ^ (-x.e)))

\* The decimal literal n / d.
Dec(n, d) == FDiv(FromInt(n), FromInt(d))

One == FromInt(1)

\* exp(-z) for 0 <= z < 1/2 by its power series in Horner form: acc holds
\* the sum of the terms after the n-th.
ExpTerms == 12
RECURSIVE ExpSeries(_, _, _)
ExpSeries(z, n, acc) ==
  IF n = 0 THEN acc
  ELSE LET a == FSub(One, FMul(FDiv(z, FromInt(n)), acc))
       IN  IF IsNaN(a) THEN a ELSE ExpSeries(z, n - 1, a)

RECURSIVE Squared(_, _)
Squared(x, k) ==
  IF k = 0 THEN x
  ELSE LET a == FMul(x, x)
       IN  IF IsNaN(a) THEN a ELSE Squared(a, k - 1)

\* exp(x) of <cmath>: the argument is halved until it is below 1/2, the
\* series is summed, and the result is squared back.
exp(x) ==
  IF IsNaN(x) THEN NaN
  ELSE IF IsInf(x) THEN (IF x.s = 1 THEN x ELSE Zero(1))
  ELSE IF x.m = 0 THEN One
  ELSE LET k == IF x.e + MantBits + 1 > 0 THEN x.e + MantBits + 1 ELSE 0
           r == Squared(ExpSeries(Fin(1, x.m, x.e - k), ExpTerms, One), k)
       IN  IF x.s = -1 THEN r ELSE FDiv(One, r)

(***************************************************************************)
(* remaining<T>()                                                          *)
(***************************************************************************)
OptimumTime == "OptimumTime"
MaxTime     == "MaxTime"
TimeType    == {OptimumTime, MaxTime}

\* Piece values of types.h, used by line 39.
KnightValueMg == 764
BishopValueMg == 826
RookValueMg   == 1282
QueenValueMg  == 2526

\* initial non_pawn_material
inpm == 4 * (KnightValueMg + BishopValueMg + RookValueMg) + 2 * QueenValueMg

Min(a, b) == IF b < a THEN b ELSE a
Max(a, b) == IF a < b THEN b ELSE a

\* current move number for any side
MoveNumber(ply) == CDiv(ply + 1, 2)

\* The floating-point literals of remaining<T>(), and inpm converted.
D0_2     == Dec(2, 10)
D0_45    == Dec(45, 100)
D0_064   == Dec(64, 1000)
Dm0_052  == Dec(-52, 1000)
D1_5     == Dec(15, 10)
D8_5     == Dec(85, 10)
D0_018   == Dec(18, 1000)
D0_074   == Dec(74, 1000)
D6_0     == FromInt(6)
D15_0    == FromInt(15)
D500_0   == FromInt(500)
D405_0   == FromInt(405)
D54      == FromInt(54)
D44      == FromInt(44)
Dinpm    == FromInt(inpm)

\* double complexity = 0.2 + double(std::min(npm, inpm)) / inpm
Complexity(npm) ==
  FAdd(D0_2, FDiv(FromInt(Min(npm, inpm)), Dinpm))

\* Plies run from 0 to MaxPly, so move numbers from 0 to MaxMn.
MaxPly == 81
MaxMn  == (MaxPly + 1) \div 2

\* exp(-0.052 * mn), tabulated over the move numbers that reach line 51.
ExpMove == [mn \in 0..Min(40, MaxMn) |-> exp(FMul(Dm0_052, FromInt(mn)))]

\* The checkpoint curve over the move number (lines 50-53).
MoveFactor(mn) ==
  IF mn <= 40
    THEN FAdd(D0_45, FMul(FMul(D0_064, FromInt(mn)), ExpMove[mn]))
  ELSE D1_5

\* SuddenDeath with the move number dropped from the numerator of line 59.
SuddenDeath_WithoutMoveNumber(movesToGo, mn) ==
  IF movesToGo # 0 THEN D8_5
  ELSE FAdd(One, FDiv(D15_0, FAdd(D500_0, FromInt(mn))))

\* sd = 1.0 + 15.0 * mn / (500.0 + mn) in sudden death, else its initial 8.5.
SuddenDeath(movesToGo, mn) ==
  IF movesToGo # 0 THEN D8_5
  ELSE FAdd(One, FDiv(FMul(D15_0, FromInt(mn)),
                      FAdd(D500_0, FromInt(mn))))

\* TRatio with the constants of the two profiles exchanged.
TRatio_ProfilesSwapped(T, movesToGo, mn, npm) ==
  IF movesToGo # 0
    THEN FMul(FMul(FDiv(IF T = OptimumTime THEN D6_0 ELSE One,
                        FromInt(movesToGo)),
                   Complexity(npm)),
              MoveFactor(mn))
  ELSE FMul(FMul(IF T = OptimumTime THEN D0_074 ELSE D0_018,
                 SuddenDeath(movesToGo, mn)),
            Complexity(npm))

\* TRatio multiplied by movesToGo at line 48 instead of divided.
TRatio_TimesMovesToGo(T, movesToGo, mn, npm) ==
  IF movesToGo # 0
    THEN FMul(FMul(FMul(IF T = OptimumTime THEN One ELSE D6_0,
                        FromInt(movesToGo)),
                   Complexity(npm)),
              MoveFactor(mn))
  ELSE FMul(FMul(IF T = OptimumTime THEN D0_018 ELSE D0_074,
                 SuddenDeath(movesToGo, mn)),
            Complexity(npm))

\* TRatio as it stands at line 63.
TRatio(T, movesToGo, mn, npm) ==
  IF movesToGo # 0
    THEN FMul(FMul(FDiv(IF T = OptimumTime THEN One ELSE D6_0,
                        FromInt(movesToGo)),
                   Complexity(npm)),
              MoveFactor(mn))
  ELSE FMul(FMul(IF T = OptimumTime THEN D0_018 ELSE D0_074,
                 SuddenDeath(movesToGo, mn)),
            Complexity(npm))

\* exp(-(mn-19) * (mn-19) / 405.0), tabulated over the move numbers.
ExpInc ==
  [mn \in 0..MaxMn |->
     exp(FDiv(FromInt(MulInt(NegInt(SubInt(mn, 19)), SubInt(mn, 19))),
              D405_0))]

\* double incUsage = 54 + 44 * exp(-(mn-19) * (mn-19) / 405.0)
IncUsage(mn) == FAdd(D54, FMul(D44, ExpInc[mn]))

\* The divisor myTime * sd of line 67.
IncDivisor(myTime, movesToGo, mn) ==
  FMul(FromInt(myTime), SuddenDeath(movesToGo, mn))

\* Ratio without the std::min(1.0, ...) of line 67.
Ratio_Unclamped(T, myTime, myInc, movesToGo, ply, npm) ==
  LET mn == MoveNumber(ply)
  IN  FMul(TRatio(T, movesToGo, mn, npm),
           FAdd(One, FDiv(FMul(IncUsage(mn), FromInt(myInc)),
                          IncDivisor(myTime, movesToGo, mn))))

\* double ratio = std::min(1.0, TRatio * (1.0 + incUsage * myInc / (myTime * sd)))
Ratio(T, myTime, myInc, movesToGo, ply, npm) ==
  LET mn == MoveNumber(ply)
  IN  FMin(One,
           FMul(TRatio(T, movesToGo, mn, npm),
                FAdd(One, FDiv(FMul(IncUsage(mn), FromInt(myInc)),
                               IncDivisor(myTime, movesToGo, mn)))))

\* hypMyTime without the std::max(0, ...) of line 68.
HypMyTime_Unclamped(myTime, moveOverhead) == SubInt(myTime, moveOverhead)

\* int hypMyTime = std::max(0, myTime - moveOverhead)
HypMyTime(myTime, moveOverhead) == Max(0, SubInt(myTime, moveOverhead))

\* The double whose int() remaining<T>() returns.
Budget(T, myTime, myInc, moveOverhead, movesToGo, ply, npm) ==
  FMul(FromInt(HypMyTime(myTime, moveOverhead)),
       Ratio(T, myTime, myInc, movesToGo, ply, npm))

\* remaining<T>(myTime, myInc, moveOverhead, movesToGo, ply, npm)
remaining(T, myTime, myInc, moveOverhead, movesToGo, ply, npm) ==
  ToInt(Budget(T, myTime, myInc, moveOverhead, movesToGo, ply, npm))

\* int(x) of a double outside the range of int, or not finite, is undefined:
\* any int may come out.
UndefinedInts == {IntMin, 0, IntMax}

\* What remaining<T>() can return.
RemainingOutcomes(T, myTime, myInc, moveOverhead, movesToGo, ply, npm) ==
  LET b == Budget(T, myTime, myInc, moveOverhead, movesToGo, ply, npm)
  IN  IF ToIntDefined(b) THEN {ToInt(b)} ELSE UndefinedInts

(***************************************************************************)
(* TimeManagement::init                                                    *)
(***************************************************************************)
VARIABLES
  Options,         \* "Move Overhead", "nodestime" and "Ponder"
  limits,          \* Search::LimitsType, the fields of the side to move
  call,            \* the arguments ply and npm of the pending or last call
  availableNodes,  \* TimeManagement::availableNodes (int64_t)
  startTime,       \* TimeManagement::startTime
  optimumTime,     \* TimeManagement::optimumTime
  maximumTime,     \* TimeManagement::maximumTime
  pc,              \* "idle", or "go" when a search is about to call init
  calls,           \* how many times init has run in this game
  firstTime,       \* limits.time[us] as handed to the first call of init
  divByZero        \* the last call evaluated a division by 0.0 at line 67

vars == << Options, limits, call, availableNodes, startTime, optimumTime,
           maximumTime, pc, calls, firstTime, divByZero >>

\* availableNodes = npmsec * limits.time[us]: the product is formed in int.
\* When it leaves the range of int the behaviour is undefined; a build either
\* keeps the low 32 bits (sign-extended) or multiplies in 64 bits.
NodesOutcomes(npmsec, time) ==
  IF MulOverflows(npmsec, time)
    THEN {WideOfInt(MulInt(npmsec, time)), MulWideNat(npmsec, time)}
  ELSE {WideOfInt(npmsec * time)}

\* ConvertLimits without the test of npmsec at line 94.
ConvertLimits_Unguarded(lim, npmsec, an) ==
  [lim EXCEPT !.time = WideToInt(an),
              !.inc = MulInt(lim.inc, npmsec),
              !.npmsec = npmsec]

\* Lines 94-103: the limits as init leaves them, an being availableNodes
\* after line 97.
ConvertLimits(lim, npmsec, an) ==
  IF npmsec # 0
    THEN [lim EXCEPT !.time = WideToInt(an),
                     !.inc = MulInt(lim.inc, npmsec),
                     !.npmsec = npmsec]
  ELSE lim

\* The ponder adjustment with a half instead of a quarter.
PonderAdjust_Half(t) == AddInt(t, CDiv(t, 2))

\* Line 111: optimumTime += optimumTime / 4
PonderAdjust(t) == AddInt(t, CDiv(t, 4))

init ==
  /\ pc = "go"
  /\ \E an \in (IF Options.nodestime # 0 /\ WideIsZero(availableNodes)
                  THEN NodesOutcomes(Options.nodestime, limits.time)
                ELSE {availableNodes}) :
       LET lim == ConvertLimits(limits, Options.nodestime, an)
       IN  /\ availableNodes' = an
           /\ limits' = lim
           /\ startTime' = lim.startTime
           /\ \E o \in RemainingOutcomes(OptimumTime, lim.time, lim.inc,
                         Options.MoveOverhead, lim.movestogo, call.ply, call.npm) :
                optimumTime' = IF Options.Ponder THEN PonderAdjust(o) ELSE o
           /\ maximumTime' \in RemainingOutcomes(MaxTime, lim.time, lim.inc,
                         Options.MoveOverhead, lim.movestogo, call.ply, call.npm)
           /\ divByZero' = IsZero(IncDivisor(lim.time, lim.movestogo,
                                             MoveNumber(call.ply)))
  /\ pc' = "idle"
  /\ calls' = calls + 1
  /\ firstTime' = IF calls = 0 THEN limits.time ELSE firstTime
  /\ UNCHANGED <<Options, call>>

(***************************************************************************)
(* The callers: the option table and the search that calls init            *)
(***************************************************************************)
\* A game is followed for MaxCalls searches.
MaxCalls == 3

\* Values of the options and of the time controls in a game.
GameOverheads == {0, 30}
GameRates     == {0, 1000}
GameTimes     == {0, 1000, 3000000}
GameIncs      == {0, 1000}
GameMovesToGo == {0, 40}
GamePlies     == {MaxPly \div 2}
GameNpms      == {inpm}
StartTimes    == {1, 2}

NoLimits == [time |-> 0, inc |-> 0, npmsec |-> 0, movestogo |-> 0, startTime |-> 0]

Init ==
  /\ Options = [MoveOverhead |-> 30, nodestime |-> 0, Ponder |-> FALSE]
  /\ limits = NoLimits
  /\ call = [ply |-> 0, npm |-> 0]
  /\ availableNodes = Wide(0, 0)
  /\ startTime = 0
  /\ optimumTime = 0
  /\ maximumTime = 0
  /\ pc = "idle"
  /\ calls = 0
  /\ firstTime = 0
  /\ divByZero = FALSE

\* setoption, before the game's first search.
SetOption ==
  /\ pc = "idle"
  /\ calls = 0
  /\ \E mo \in GameOverheads, nt \in GameRates, p \in BOOLEAN :
       Options' = [MoveOverhead |-> mo, nodestime |-> nt, Ponder |-> p]
  /\ UNCHANGED << limits, call, availableNodes, startTime, optimumTime,
                  maximumTime, pc, calls, firstTime, divByZero >>

\* go: fresh limits are parsed and the search is about to call init.
Go ==
  /\ pc = "idle"
  /\ calls < MaxCalls
  /\ \E t \in GameTimes, i \in GameIncs, mtg \in GameMovesToGo, st \in StartTimes :
       limits' = [time |-> t, inc |-> i, npmsec |-> 0, movestogo |-> mtg,
                  startTime |-> st]
  /\ \E ply \in GamePlies, npm \in GameNpms : call' = [ply |-> ply, npm |-> npm]
  /\ pc' = "go"
  /\ UNCHANGED << Options, availableNodes, startTime, optimumTime, maximumTime,
                  calls, firstTime, divByZero >>

Next == SetOption \/ Go \/ init

Spec == Init /\ [][Next]_vars

(***************************************************************************)
(* One call of init on a fresh TimeManagement, over a grid of inputs       *)
(***************************************************************************)
PlyStep == 9

CurveOverheads == {0, 30, 5000}
CurveRates     == {0, 1000}
CurveTimes     == {-50, 0, 1, 1000, 60000}
CurveIncs      == {0, 1000}
CurveMovesToGo == {0, 1, 2, 40}
CurvePlies     == {p \in 0..MaxPly : p % PlyStep = 0}
CurveNpms      == {0, 8000, inpm + 1000}

InitCurve ==
  /\ Options \in [MoveOverhead : CurveOverheads, nodestime : CurveRates,
                  Ponder : BOOLEAN]
  /\ limits \in [time : CurveTimes, inc : CurveIncs, npmsec : {0},
                 movestogo : CurveMovesToGo, startTime : {1}]
  /\ call \in [ply : CurvePlies, npm : CurveNpms]
  /\ availableNodes = Wide(0, 0)
  /\ startTime = 0
  /\ optimumTime = 0
  /\ maximumTime = 0
  /\ pc = "go"
  /\ calls = 0
  /\ firstTime = 0
  /\ divByZero = FALSE

SpecCurve == InitCurve /\ [][init]_vars

(***************************************************************************)
(* Properties                                                              *)
(***************************************************************************)
\* init has returned at least once and no search is pending.
Called == pc = "idle" /\ calls > 0

\* The values init handed to remaining<T>() in its last call.
MyTime       == limits.time
MyInc        == limits.inc
MoveOverhead == Options.MoveOverhead
MovesToGo    == limits.movestogo

\* max(0, myTime - moveOverhead), the currently usable time.
Usable == IF MyTime - MoveOverhead > 0 THEN MyTime - MoveOverhead ELSE 0

\* What remaining<T>() returns for the inputs of the last call, with the ply
\* and movesToGo replaced.
BudgetAt(T, movesToGo, ply) ==
  remaining(T, MyTime, MyInc, MoveOverhead, movesToGo, ply, call.npm)
RatioAt(T, movesToGo, ply) ==
  Ratio(T, MyTime, MyInc, movesToGo, ply, call.npm)

\* optimumTime as line 107 leaves it, before the ponder adjustment.
OptimumBeforePonder == BudgetAt(OptimumTime, MovesToGo, call.ply)

ValidInputs ==
  /\ MyTime >= 0
  /\ MyInc >= 0
  /\ MoveOverhead >= 0
  /\ MovesToGo >= 0
  /\ call.ply >= 0
  /\ call.npm >= 0

\* C1 as stated: after any call of init with myInc >= 0, optimumTime and
\* maximumTime are both at most max(0, myTime - moveOverhead), Ponder on or off.
C1_Original ==
  (Called /\ MyInc >= 0) => (optimumTime <= Usable /\ maximumTime <= Usable)

\* C1 amended: maximumTime and the optimum before the ponder adjustment are at
\* most max(0, myTime - moveOverhead); so is optimumTime with Ponder off; with
\* Ponder on optimumTime is at most that bound plus a quarter of it.
C1_UsableTimeBound ==
  (Called /\ MyInc >= 0) =>
    /\ maximumTime <= Usable
    /\ OptimumBeforePonder <= Usable
    /\ ~Options.Ponder => optimumTime <= Usable
    /\ Options.Ponder => optimumTime <= Usable + (Usable \div 4)

C1_Witness ==
  /\ Called
  /\ Options.Ponder
  /\ Usable > 0
  /\ maximumTime = Usable
  /\ optimumTime > Usable
  /\ optimumTime = Usable + (Usable \div 4)

\* C2 as stated: every call with valid inputs ends with
\* 0 <= optimumTime <= maximumTime, whatever Ponder and nodestime are.
C2_Original ==
  (Called /\ ValidInputs) => (0 <= optimumTime /\ optimumTime <= maximumTime)

\* C2 amended: every call with valid inputs ends with 0 <= b <= maximumTime,
\* b being the optimum before the ponder adjustment; with Ponder off
\* optimumTime is b, so 0 <= optimumTime <= maximumTime.
C2_OptimumBelowMaximum ==
  (Called /\ ValidInputs) =>
    /\ 0 <= OptimumBeforePonder
    /\ OptimumBeforePonder <= maximumTime
    /\ ~Options.Ponder => (0 <= optimumTime /\ optimumTime <= maximumTime)

C2_Witness ==
  /\ Called
  /\ ValidInputs
  /\ ~Options.Ponder
  /\ 0 < optimumTime
  /\ optimumTime < maximumTime
  /\ maximumTime < Usable

\* C3: whenever moveOverhead >= myTime at a call of init (myInc >= 0), both
\* optimumTime and maximumTime are 0 afterwards, also when myTime = 0 and the
\* increment term divides by myTime * sd = 0.
C3_ZeroWhenNoUsableTime ==
  (Called /\ MyInc >= 0 /\ MoveOverhead >= MyTime) =>
    (optimumTime = 0 /\ maximumTime = 0)

C3_Witness ==
  /\ Called
  /\ MyTime = 0
  /\ MyInc > 0
  /\ divByZero
  /\ Options.Ponder
  /\ optimumTime = 0
  /\ maximumTime = 0

\* C4 as stated: in nodes-as-time mode availableNodes is set by the first call
\* of init to rate * that call's myTime and never changes afterwards, and
\* every call passes that availableNodes to remaining() as the time.
C4_FixedFromFirstCall ==
  (Called /\ Options.nodestime # 0) =>
    /\ availableNodes = MulWideNat(Options.nodestime, firstTime)
    /\ MyTime = WideToInt(availableNodes)

\* C5 as stated: with Ponder on, optimumTime is b + floor(b / 4) for the
\* ponder-off optimum b, strictly greater than b, and maximumTime is what the
\* ponder-off call gives.
C5_Original ==
  (Called /\ ValidInputs /\ Options.Ponder) =>
    /\ optimumTime = OptimumBeforePonder + (OptimumBeforePonder \div 4)
    /\ optimumTime > OptimumBeforePonder
    /\ maximumTime = BudgetAt(MaxTime, MovesToGo, call.ply)

\* C5 amended: with Ponder on, optimumTime is b + b / 4 in int arithmetic for
\* the ponder-off optimum b; it is greater than b when b >= 4 and equal to b
\* when 0 <= b <= 3; maximumTime is what the ponder-off call gives.
C5_PonderQuarter ==
  (Called /\ Options.Ponder) =>
    LET b == OptimumBeforePonder
    IN  /\ optimumTime = AddInt(b, CDiv(b, 4))
        /\ (b >= 4 /\ ~AddOverflows(b, CDiv(b, 4))) => optimumTime > b
        /\ (0 <= b /\ b <= 3) => optimumTime = b
        /\ maximumTime = BudgetAt(MaxTime, MovesToGo, call.ply)

C5_Witness ==
  /\ Called
  /\ Options.Ponder
  /\ OptimumBeforePonder >= 4
  /\ optimumTime > OptimumBeforePonder
  /\ optimumTime < maximumTime

\* C6 as stated: a call of init leaves the options, its arguments and the
\* whole time-control record as they were, and changes availableNodes only
\* from unset.
C6_Original ==
  [][(pc = "go" /\ pc' = "idle") =>
       /\ limits' = limits
       /\ Options' = Options
       /\ call' = call
       /\ availableNodes' # availableNodes => WideIsZero(availableNodes)]_vars

\* C6 amended: a call of init leaves the options, its arguments and
\* limits.movestogo and limits.startTime as they were and changes
\* availableNodes only from unset; in wall-clock mode the whole time-control
\* record is unchanged, in nodes-as-time mode limits.time becomes
\* (int)availableNodes, limits.inc is multiplied by nodestime and
\* limits.npmsec becomes nodestime.
C6_Frame ==
  [][(pc = "go" /\ pc' = "idle") =>
       /\ Options' = Options
       /\ call' = call
       /\ limits'.movestogo = limits.movestogo
       /\ limits'.startTime = limits.startTime
       /\ availableNodes' # availableNodes =>
            (WideIsZero(availableNodes) /\ Options.nodestime # 0)
       /\ Options.nodestime = 0 => limits' = limits
       /\ Options.nodestime # 0 =>
            /\ limits'.time = WideToInt(availableNodes')
            /\ limits'.inc = MulInt(limits.inc, Options.nodestime)
            /\ limits'.npmsec = Options.nodestime]_vars

C6_Witness ==
  /\ Called
  /\ calls = 1
  /\ Options.nodestime = 1000
  /\ firstTime = 1000
  /\ limits = [time |-> 1000000, inc |-> 1000000, npmsec |-> 1000,
               movestogo |-> 40, startTime |-> 2]
  /\ startTime = 2

\* C7 as stated: no call of init evaluates a division by zero; with
\* myTime = 0 the increment term is skipped.
C7_NoDivisionByZero == Called => ~divByZero

\* The next sampled ply after the last call's.
LaterPly == call.ply + PlyStep

\* The budgets and ratios of both profiles do not decrease from the last
\* call's ply to the next sampled one.
NonDecreasingInPly ==
  \A T \in TimeType :
    /\ BudgetAt(T, MovesToGo, call.ply) <= BudgetAt(T, MovesToGo, LaterPly)
    /\ ~FLess(RatioAt(T, MovesToGo, LaterPly), RatioAt(T, MovesToGo, call.ply))

\* C8 as stated: in sudden death, for myTime > 0 and any myInc >= 0, ratio and
\* budget are non-decreasing in the move number.
C8_Original ==
  (Called /\ ValidInputs /\ MovesToGo = 0 /\ MyTime > 0 /\ LaterPly <= MaxPly)
    => NonDecreasingInPly

\* C8 amended: in sudden death, for myTime > 0 and myInc = 0, ratio and budget
\* are non-decreasing in the move number.
C8_MonotoneWithoutIncrement ==
  (Called /\ ValidInputs /\ MovesToGo = 0 /\ MyTime > 0 /\ MyInc = 0
     /\ LaterPly <= MaxPly)
    => /\ NonDecreasingInPly
       /\ maximumTime = BudgetAt(MaxTime, MovesToGo, call.ply)

C8_Witness ==
  /\ Called
  /\ MovesToGo = 0
  /\ MyInc = 0
  /\ LaterPly <= MaxPly
  /\ 0 < maximumTime
  /\ maximumTime < BudgetAt(MaxTime, MovesToGo, LaterPly)

\* C9 as stated: on the first call in nodes-as-time mode availableNodes is
\* the mathematical product rate * t and the time passed to remaining() is
\* that same product.
C9_ExactProduct ==
  (Called /\ calls = 1 /\ Options.nodestime # 0) =>
    /\ availableNodes = MulWideNat(Options.nodestime, firstTime)
    /\ WideOfInt(MyTime) = MulWideNat(Options.nodestime, firstTime)

\* The budgets of both profiles with movesToGo = m are at most the budgets of
\* the last call, for every sampled m at least the call's movesToGo.
NonIncreasingInMovesToGo ==
  \A T \in TimeType : \A m \in CurveMovesToGo :
    m >= MovesToGo =>
      BudgetAt(T, m, call.ply) <= BudgetAt(T, MovesToGo, call.ply)

\* C10 as stated: in checkpoint mode the budget is non-increasing in
\* movesToGo, and with movesToGo = 1 it is strictly larger than with
\* movesToGo = 40 whenever it is non-zero.
C10_Original ==
  (Called /\ ValidInputs /\ MovesToGo >= 1) =>
    /\ NonIncreasingInMovesToGo
    /\ \A T \in TimeType :
         (MovesToGo = 1 /\ BudgetAt(T, 1, call.ply) > 0) =>
           BudgetAt(T, 40, call.ply) < BudgetAt(T, 1, call.ply)

\* C10 amended: in checkpoint mode the budget is non-increasing in movesToGo,
\* and with movesToGo = 1 it is strictly larger than with movesToGo = 40
\* whenever it is non-zero and the ratio for movesToGo = 40 is below the
\* clamp 1.0.
C10_MovesToGoSensitivity ==
  (Called /\ ValidInputs /\ MovesToGo >= 1) =>
    /\ NonIncreasingInMovesToGo
    /\ maximumTime = BudgetAt(MaxTime, MovesToGo, call.ply)
    /\ \A T \in TimeType :
         (MovesToGo = 1 /\ BudgetAt(T, 1, call.ply) > 0
            /\ FLess(RatioAt(T, 40, call.ply), One)) =>
           BudgetAt(T, 40, call.ply) < BudgetAt(T, 1, call.ply)

C10_Witness ==
  /\ Called
  /\ MovesToGo = 1
  /\ MyInc > 0
  /\ maximumTime > 0
  /\ FLess(RatioAt(MaxTime, 40, call.ply), One)
  /\ BudgetAt(MaxTime, 40, call.ply) < maximumTime

====
